---- MODULE Spec2Model ----
(***************************************************************************)
(* Model of src/py3status/bluetooth.py: the py3status bluetooth module.    *)
(*                                                                         *)
(* Program state is the single attribute waiting_for_unblock.  The         *)
(* environment is the output the external commands would give right now    *)
(* (rfkill list, hcitool dev, hcitool con, hcitool name <mac>).  The two   *)
(* entry points, bluetooth() and on_click(), are actions that run the      *)
(* whole handler; `last` records what the most recent handler run did.     *)
(*                                                                         *)
(* Text is a sequence of symbols.  A symbol is one character, except in    *)
(* the rfkill report where a whole word ("Bluetooth", "Soft", ...) is one  *)
(* symbol.  "A","B" stand for the hex letters A-F, "0","1" for the digits, *)
(* "x" for any other printable character.                                  *)
(***************************************************************************)
EXTENDS Integers, Sequences, FiniteSets, TLC

VARIABLES waiting_for_unblock, rfkill_list, hcitool_dev, hcitool_con, name_ok, last, prev,
          awaited, poll_thread, click_thread, set_since_seen

vars == <<waiting_for_unblock, rfkill_list, hcitool_dev, hcitool_con, name_ok, last, prev,
          awaited, poll_thread, click_thread, set_since_seen>>

\* the two handlers when they run step by step (SpecRace)
threads == <<poll_thread, click_thread, set_since_seen>>

env == <<rfkill_list, hcitool_dev, hcitool_con, name_ok>>

(***************************************************************************)
(* Bounds                                                                  *)
(***************************************************************************)
\* number of chunks concatenated to form the output of 'hcitool con'
MaxChunks == 2

(***************************************************************************)
(* Regular expressions (re.findall)                                        *)
(***************************************************************************)
NL == "\n"

HexColon == {"A", "B", "0", "1", ":"}

Space == {" ", "\t", NL}

Words == {"0:", "1:", "hci0:", "phy0:", "Bluetooth", "Wireless", "LAN", "Soft", "Hard", "blocked:", "no", "yes"}

Symbols == HexColon \cup Space \cup Words \cup {"x"}

\* '.' matches anything but a newline
Dot == Symbols \ {NL}

Inf == 1000

\* one piece of a pattern: a class repeated min..max times, lazily or greedily
Rep(cls, min, max, lazy) == [cls |-> cls, min |-> min, max |-> max, lazy |-> lazy]

Lit(s) == Rep({s}, 1, 1, FALSE)

SpacePlus == Rep(Space, 1, Inf, FALSE)

MacLen == 17

\* a slip: any 17 characters
BTMAC_RE_any == << Rep(Dot, MacLen, MacLen, FALSE) >>

BTMAC_RE == << Rep(HexColon, MacLen, MacLen, FALSE) >>

BTSTATUS_RE == << Rep(Dot, 1, Inf, TRUE), Rep(HexColon, MacLen, MacLen, FALSE) >>

BTBLOCKED_RE ==
  << Rep(Dot, 1, Inf, TRUE), Lit("Bluetooth"), Lit(NL),
     SpacePlus, Lit("Soft"), SpacePlus, Lit("blocked:"), SpacePlus, Lit("no"), Lit(NL),
     SpacePlus, Lit("Hard"), SpacePlus, Lit("blocked:"), SpacePlus, Lit("no") >>

Min(a, b) == IF a < b THEN a ELSE b

\* number of consecutive symbols of text from position i on that are in cls, at most cap
RECURSIVE Run(_, _, _, _)
Run(cls, text, i, cap) ==
  IF cap = 0 \/ i > Len(text) \/ text[i] \notin cls THEN 0
  ELSE 1 + Run(cls, text, i + 1, cap - 1)

\* MatchEnd(re, k, text, i): the position after the match the backtracking
\* matcher finds for pieces k.. of re starting at position i, or 0 if none
RECURSIVE MatchEnd(_, _, _, _)
RECURSIVE TryCount(_, _, _, _, _, _)
TryCount(re, k, text, i, n, avail) ==
  \* n is the repetition count tried now for piece k
  IF n < re[k].min \/ n > avail THEN 0
  ELSE LET e == MatchEnd(re, k + 1, text, i + n) IN
       IF e # 0 THEN e
       ELSE IF re[k].lazy THEN TryCount(re, k, text, i, n + 1, avail)
                          ELSE TryCount(re, k, text, i, n - 1, avail)

MatchEnd(re, k, text, i) ==
  IF k > Len(re) THEN i
  ELSE LET avail == Run(re[k].cls, text, i, Min(re[k].max, Len(text)))
       IN  TryCount(re, k, text, i, IF re[k].lazy THEN re[k].min ELSE avail, avail)

\* re.findall: the non-overlapping matches, scanning left to right
RECURSIVE FindFrom(_, _, _)
FindFrom(re, text, i) ==
  IF i > Len(text) THEN << >>
  ELSE LET e == MatchEnd(re, 1, text, i) IN
       IF e = 0 THEN FindFrom(re, text, i + 1)
       ELSE << SubSeq(text, i, e - 1) >> \o FindFrom(re, text, e)

findall(re, text) == FindFrom(re, text, 1)

Range(s) == { s[i] : i \in 1..Len(s) }

(***************************************************************************)
(* The external commands                                                   *)
(*                                                                         *)
(* The environment holds, for each query, whether it can be run and what   *)
(* it reports on; the text the program reads is rendered from that.        *)
(***************************************************************************)
\* what check_output gives: the captured text, or an exception
Ok(text) == [ok |-> TRUE, text |-> text]

Failed == [ok |-> FALSE, text |-> << >>]

RECURSIVE Flatten(_)
Flatten(chunks) == IF chunks = << >> THEN << >> ELSE Head(chunks) \o Flatten(Tail(chunks))

Octets(p) == p \o <<":">> \o p \o <<":">> \o p \o <<":">> \o p \o <<":">> \o p \o <<":">> \o p

MacA == Octets(<<"A", "A">>)

MacB == Octets(<<"0", "B">>)

\* text that is not an address but ends in hex-or-colon characters
Junk == <<"x", "A", ":">>

\* the first line of the 'hcitool con' report
ConHeader == <<"x", "x", ":", NL>>

\* 'rfkill list': one entry per radio
RfEntry(idx, name, type, soft, hard) ==
  <<idx, " ", name, " ">> \o type
    \o <<NL, "\t", "Soft", " ", "blocked:", " ", soft, NL>>
    \o <<"\t", "Hard", " ", "blocked:", " ", hard, NL>>

Radio(r) ==
  CASE r = "bt"      -> RfEntry("0:", "hci0:", <<"Bluetooth">>, "no", "no")
    [] r = "bt_soft" -> RfEntry("0:", "hci0:", <<"Bluetooth">>, "yes", "no")
    [] r = "bt_hard" -> RfEntry("0:", "hci0:", <<"Bluetooth">>, "no", "yes")
    [] r = "wlan"    -> RfEntry("1:", "phy0:", <<"Wireless", " ", "LAN">>, "no", "no")

RfkillStates ==
  { [ok |-> FALSE, on |-> << >>] } \cup
  { [ok |-> TRUE, on |-> r] :
      r \in { << >>, <<"bt">>, <<"bt_soft">>, <<"bt_hard">>, <<"wlan", "bt">>, <<"bt", "bt">> } }

\* 'hcitool dev': a header and one line per local adapter
DevHeader == <<"x", "x", ":", NL>>

DevLine(a) == <<"\t", "x", "\t">> \o (IF a = "macA" THEN MacA ELSE MacB) \o <<NL>>

DevStates ==
  { [ok |-> FALSE, on |-> << >>] } \cup
  { [ok |-> TRUE, on |-> r] : r \in { << >>, <<"macA">>, <<"macA", "macB">> } }

\* 'hcitool con': pieces of text, in any arrangement
ConChunks == {"header", "macA", "macB", "junk"}

Chunk(c) ==
  CASE c = "header" -> ConHeader
    [] c = "macA" -> MacA
    [] c = "macB" -> MacB
    [] c = "junk" -> Junk

ConStates ==
  { [ok |-> FALSE, on |-> << >>] } \cup
  { [ok |-> TRUE, on |-> r] : r \in UNION { [1..n -> ConChunks] : n \in 0..MaxChunks } }

\* the output of the three queries in a given environment
rfkill_output(e) ==
  IF e.ok THEN Ok(Flatten([i \in 1..Len(e.on) |-> Radio(e.on[i])])) ELSE Failed

dev_output(e) ==
  IF ~e.ok THEN Failed
  ELSE Ok(DevHeader \o Flatten([i \in 1..Len(e.on) |-> DevLine(e.on[i])]))

con_output(e) ==
  IF e.ok THEN Ok(Flatten([i \in 1..Len(e.on) |-> Chunk(e.on[i])])) ELSE Failed

\* the addresses 'hcitool name' can resolve
NameSets == SUBSET {"macA", "macB"}

\* subprocess.call: exit status 0, another exit status, or OSError
CallOutcomes == {"zero", "nonzero", "OSError"}

\* the name 'hcitool name <mac>' prints for an address it can resolve
DeviceName(mac) == IF mac = MacA THEN <<"x", "x", NL>> ELSE <<"x", NL>>

(***************************************************************************)
(* Configuration parameters (class attributes) and py3 helpers             *)
(***************************************************************************)
cache_timeout == 10

device_separator == <<"|">>

format_no_conn == <<"NO CONNECTION">>

format_no_power == <<"OFF">>

format_no_power_prefix == <<"BT: ">>

format_no_conn_prefix == <<"BT: ">>

format_prefix == <<"BT: ">>

icon_color_up == "#FFFFFF"

icon_color_down == "#FF0000"

COLOR_BAD == "COLOR_BAD"

COLOR_GOOD == "COLOR_GOOD"

\* py3.time_in(seconds): seconds from the cycle's clock reading
time_in(seconds) == seconds

NoResponse == [full_text |-> << >>, color |-> "none", icon_color |-> "none", cached_until |-> -1]

(***************************************************************************)
(* Methods of Py3status                                                    *)
(***************************************************************************)
\* bool(command_output) is false for False and for empty output alike
Truthy(out) == out.ok /\ out.text # << >>

\* call_command gives False on failure; False.decode raises AttributeError
_parse_command(out, regex) ==
  IF ~out.ok THEN [exc |-> "AttributeError", matches |-> << >>]
  ELSE IF out.text # << >> THEN [exc |-> "none", matches |-> findall(regex, out.text)]
  ELSE [exc |-> "none", matches |-> << >>]

\* a slip: 'or' in place of 'and'
HasPower_either(flag, rfkill_length, devices_length) == rfkill_length > 0 \/ devices_length > 0

\* a slip: a pending toggle-on is taken for power
HasPower_assumed(flag, rfkill_length, devices_length) ==
  flag \/ (rfkill_length > 0 /\ devices_length > 0)

\* the return expression; flag is self.waiting_for_unblock, which is in
\* scope there and is not read
HasPower(flag, rfkill_length, devices_length) == rfkill_length > 0 /\ devices_length > 0

_bluetooth_has_power(flag, rf, dv) ==
  LET r == _parse_command(rf, BTBLOCKED_RE)
      d == _parse_command(dv, BTSTATUS_RE)
  IN  IF r.exc # "none"
        THEN [exc |-> r.exc, power |-> FALSE, rfkill_length |-> -1, devices_length |-> -1,
              cmds |-> <<"rfkill list">>]
      ELSE IF d.exc # "none"
        THEN [exc |-> d.exc, power |-> FALSE, rfkill_length |-> Len(r.matches),
              devices_length |-> -1, cmds |-> <<"rfkill list", "hcitool dev">>]
      ELSE [exc |-> "none", power |-> HasPower(flag, Len(r.matches), Len(d.matches)),
            rfkill_length |-> Len(r.matches), devices_length |-> Len(d.matches),
            cmds |-> <<"rfkill list", "hcitool dev">>]

\* a slip: the matches are used without set()
mac_set_list(matches) == matches

\* set(matches): each match once.  A Python set is modelled as the sequence
\* of its elements in order of first occurrence; nothing in the module
\* reads the order
RECURSIVE mac_set(_)
mac_set(matches) ==
  IF matches = << >> THEN << >>
  ELSE LET rest == mac_set(SubSeq(matches, 1, Len(matches) - 1))
           m == matches[Len(matches)]
       IN  IF m \in Range(rest) THEN rest ELSE Append(rest, m)

\* safe_format('{format_prefix}{format}', ...)
_create_output_string(prefix, info) == prefix \o info

\* the dict display reads the undefined names cached_until and full_text
\* (and self.py4): building the response raises NameError
_create_error_response == [exc |-> "NameError", response |-> NoResponse]

\* a staticmethod without self: the first iteration of the loop reads the
\* undefined name self and raises NameError before any lookup is issued
collect_connected_devices(macs) ==
  IF macs = << >> THEN [exc |-> "none", data |-> << >>, cmds |-> << >>]
  ELSE [exc |-> "NameError", data |-> << >>, cmds |-> << >>]

RECURSIVE join(_, _)
join(sep, data) ==
  IF data = << >> THEN << >>
  ELSE IF Len(data) = 1 THEN data[1]
  ELSE data[1] \o sep \o join(sep, Tail(data))

\* a slip: the zero cache duration whether or not a toggle is awaited
off_cached_until_always_zero(flag) == time_in(0)

\* the cache duration of the Off display
off_cached_until(flag) == IF flag THEN time_in(0) ELSE time_in(cache_timeout)

\* a slip: the flag is cleared on the no-power branch as well
power_off_flag_cleared(flag) == FALSE

\* waiting_for_unblock after the no-power branch, which does not assign it
power_off_flag(flag) == flag

\* a slip: the flag is left as it was
power_on_flag_kept(flag) == flag

\* waiting_for_unblock once the adapter is seen powered on
power_on_flag(flag) == FALSE

\* what one run of a handler did
Ran(op, entry, hp, exc, flag, cmds, macs, data, response) ==
  [op |-> op, entry_flag |-> entry, exc |-> exc,
   power |-> IF hp.exc # "none" THEN "unknown" ELSE IF hp.power THEN "On" ELSE "Off",
   rfkill_length |-> hp.rfkill_length, devices_length |-> hp.devices_length,
   flag |-> flag, cmds |-> cmds, macs |-> macs, data |-> data, response |-> response]

bluetooth_run(flag, rf, dv, cn) ==
  LET hp == _bluetooth_has_power(flag, rf, dv)
      color == COLOR_BAD
      icon_color == icon_color_up
      cached_until == time_in(cache_timeout)
  IN  IF hp.exc # "none"
        THEN Ran("bluetooth", flag, hp, hp.exc, flag, hp.cmds, << >>, << >>, NoResponse)
      ELSE IF ~hp.power
        THEN Ran("bluetooth", flag, hp, "none", power_off_flag(flag), hp.cmds, << >>, << >>,
                 [full_text |-> _create_output_string(format_no_power_prefix, format_no_power),
                  color |-> color, icon_color |-> icon_color_down,
                  cached_until |-> off_cached_until(flag)])
      ELSE LET cmds == hp.cmds \o <<"hcitool con">>
               cleared == power_on_flag(flag)
           IN
           IF ~Truthy(cn)
             THEN Ran("bluetooth", flag, hp, _create_error_response.exc, cleared, cmds, << >>, << >>,
                      _create_error_response.response)
           ELSE LET mac_addresses == mac_set(findall(BTMAC_RE, cn.text)) IN
                IF mac_addresses # << >>
                  THEN LET c == collect_connected_devices(mac_addresses) IN
                       IF c.exc # "none"
                         THEN Ran("bluetooth", flag, hp, c.exc, cleared, cmds \o c.cmds,
                                  mac_addresses, c.data, NoResponse)
                       ELSE Ran("bluetooth", flag, hp, "none", cleared, cmds \o c.cmds,
                                mac_addresses, c.data,
                                [full_text |-> _create_output_string(format_prefix,
                                                  join(device_separator, c.data)),
                                 color |-> COLOR_GOOD, icon_color |-> icon_color,
                                 cached_until |-> cached_until])
                ELSE Ran("bluetooth", flag, hp, "none", cleared, cmds, << >>, << >>,
                         [full_text |-> _create_output_string(format_no_conn_prefix, format_no_conn),
                          color |-> color, icon_color |-> icon_color,
                          cached_until |-> cached_until])

\* o1, o2: how the two control commands end, if they are issued
on_click_run(flag, rf, dv, o1, o2) ==
  LET hp == _bluetooth_has_power(flag, rf, dv)
      first == IF hp.power THEN "rfkill block bluetooth" ELSE "rfkill unblock bluetooth"
      second == IF hp.power THEN "sudo hciconfig hci0 down" ELSE "sudo hciconfig hci0 up"
  IN  IF hp.exc # "none"
        THEN Ran("on_click", flag, hp, hp.exc, flag, hp.cmds, << >>, << >>, NoResponse)
      ELSE IF o1 = "OSError"
        THEN Ran("on_click", flag, hp, "OSError", flag, hp.cmds \o <<first>>, << >>, << >>, NoResponse)
      ELSE IF o2 = "OSError"
        THEN Ran("on_click", flag, hp, "OSError", flag, hp.cmds \o <<first, second>>, << >>, << >>,
                 NoResponse)
      ELSE Ran("on_click", flag, hp, "none", IF hp.power THEN flag ELSE TRUE,
               hp.cmds \o <<first, second>>, << >>, << >>, NoResponse)

(***************************************************************************)
(* The state machine                                                       *)
(***************************************************************************)
NoOp ==
  [op |-> "none", entry_flag |-> FALSE, exc |-> "none", power |-> "unknown",
   rfkill_length |-> -1, devices_length |-> -1, flag |-> FALSE, cmds |-> << >>,
   macs |-> << >>, data |-> << >>, response |-> NoResponse]

\* what the caller of a handler sees of its run, and the flag it started with
Shown(run) ==
  [op |-> run.op, entry_flag |-> run.entry_flag, exc |-> run.exc,
   full_text |-> run.response.full_text, color |-> run.response.color]

\* what is kept of a handler run when the next one starts: a poll, to
\* compare the next poll with
Before(run) == IF run.op = "bluetooth" THEN Shown(run) ELSE Shown(NoOp)

\* awaited after a handler run: a click that saw Off is a toggle-on, and any
\* handler that saw On ends the wait
Awaited(was, run) ==
  IF run.power = "On" THEN FALSE
  ELSE IF run.op = "on_click" /\ run.power = "Off" THEN TRUE
  ELSE was

\* a handler that is not running
Idle == [pc |-> "idle", rfkill_length |-> -1, devices_length |-> -1, power |-> FALSE]

\* __init__, in any environment.  prev is what was seen of the handler run
\* before the last one, if that was a poll; awaited records that the most recent toggle was a toggle-on and that
\* no handler has seen the adapter powered on since
Init ==
  /\ waiting_for_unblock = FALSE
  /\ rfkill_list \in RfkillStates
  /\ hcitool_dev \in DevStates
  /\ hcitool_con \in ConStates
  /\ name_ok \in NameSets
  /\ last = NoOp
  /\ prev = Shown(NoOp)
  /\ awaited = FALSE
  /\ poll_thread = Idle
  /\ click_thread = Idle
  /\ set_since_seen = FALSE

\* the handlers' results, tabulated over the environments
bluetooth_table ==
  [f \in BOOLEAN, r \in RfkillStates, d \in DevStates, c \in ConStates |->
     bluetooth_run(f, rfkill_output(r), dev_output(d), con_output(c))] @@ << >>

on_click_table ==
  [f \in BOOLEAN, r \in RfkillStates, d \in DevStates, o1 \in CallOutcomes, o2 \in CallOutcomes |->
     on_click_run(f, rfkill_output(r), dev_output(d), o1, o2)] @@ << >>

\* one poll cycle
bluetooth ==
  /\ last' = bluetooth_table[waiting_for_unblock, rfkill_list, hcitool_dev, hcitool_con]
  /\ prev' = Before(last)
  /\ waiting_for_unblock' = last'.flag
  /\ awaited' = Awaited(awaited, last')
  /\ UNCHANGED <<env, threads>>

\* one click
on_click ==
  \E o1, o2 \in CallOutcomes :
    /\ last' = on_click_table[waiting_for_unblock, rfkill_list, hcitool_dev, o1, o2]
    /\ prev' = Before(last)
    /\ waiting_for_unblock' = last'.flag
    /\ awaited' = Awaited(awaited, last')
    /\ UNCHANGED <<env, threads>>

\* the environment moves between handler runs; last and prev describe
\* handler runs in the current environment, so they are dropped
rfkill_changes ==
  /\ rfkill_list' \in RfkillStates \ {rfkill_list}
  /\ last' = NoOp /\ prev' = Shown(NoOp)
  /\ UNCHANGED <<threads, waiting_for_unblock, awaited, hcitool_dev, hcitool_con, name_ok>>

dev_changes ==
  /\ hcitool_dev' \in DevStates \ {hcitool_dev}
  /\ last' = NoOp /\ prev' = Shown(NoOp)
  /\ UNCHANGED <<threads, waiting_for_unblock, awaited, rfkill_list, hcitool_con, name_ok>>

con_changes ==
  /\ hcitool_con' \in ConStates \ {hcitool_con}
  /\ last' = NoOp /\ prev' = Shown(NoOp)
  /\ UNCHANGED <<threads, waiting_for_unblock, awaited, rfkill_list, hcitool_dev, name_ok>>

name_changes ==
  /\ name_ok' \in NameSets \ {name_ok}
  /\ last' = NoOp /\ prev' = Shown(NoOp)
  /\ UNCHANGED <<threads, waiting_for_unblock, awaited, rfkill_list, hcitool_dev, hcitool_con>>

Next == bluetooth \/ on_click \/ rfkill_changes \/ dev_changes \/ con_changes \/ name_changes

Spec == Init /\ [][Next]_vars

(***************************************************************************)
(* The handlers step by step                                               *)
(*                                                                         *)
(* A click may race a poll.  Each handler is cut where it touches what the *)
(* other can touch: a step is one subprocess (which reads or drives the    *)
(* adapter) with the local computation after it, or one access to          *)
(* waiting_for_unblock.                                                    *)
(***************************************************************************)
\* the connections outputs of the step-by-step specification
RaceConStates ==
  { [ok |-> FALSE, on |-> << >>], [ok |-> TRUE, on |-> <<"header">>],
    [ok |-> TRUE, on |-> <<"header", "macA">>] }

InitRace ==
  /\ waiting_for_unblock = FALSE
  /\ rfkill_list \in RfkillStates
  /\ hcitool_dev \in DevStates
  /\ hcitool_con \in RaceConStates
  /\ name_ok = {}
  /\ last = NoOp
  /\ prev = Shown(NoOp)
  /\ awaited = FALSE
  /\ poll_thread = Idle
  /\ click_thread = Idle
  /\ set_since_seen = FALSE

\* the thread after 'rfkill list' (line 71): on, or ended by the exception
after_rfkill(t) ==
  LET r == _parse_command(rfkill_output(rfkill_list), BTBLOCKED_RE) IN
  IF r.exc # "none" THEN Idle
  ELSE [t EXCEPT !.pc = "dev", !.rfkill_length = Len(r.matches)]

\* the thread after 'hcitool dev' (line 72)
after_dev(t, next) ==
  LET d == _parse_command(dev_output(hcitool_dev), BTSTATUS_RE) IN
  IF d.exc # "none" THEN Idle
  ELSE [t EXCEPT !.pc = next, !.devices_length = Len(d.matches)]

\* bluetooth(), line 117: 'rfkill list'
poll_rfkill ==
  /\ poll_thread.pc = "idle"
  /\ poll_thread' = after_rfkill(poll_thread)
  /\ UNCHANGED <<waiting_for_unblock, env, last, prev, awaited, click_thread, set_since_seen>>

\* line 117: 'hcitool dev'; the poll has now seen the power state
poll_dev ==
  /\ poll_thread.pc = "dev"
  /\ poll_thread' = after_dev(poll_thread, "decide")
  /\ set_since_seen' = FALSE
  /\ UNCHANGED <<waiting_for_unblock, env, last, prev, awaited, click_thread>>

\* lines 117-123: the branch on the power state, which reads the flag
\* (no power) or clears it (power)
poll_decide ==
  /\ poll_thread.pc = "decide"
  /\ LET power == HasPower(waiting_for_unblock, poll_thread.rfkill_length,
                           poll_thread.devices_length)
     IN  IF power
           THEN /\ waiting_for_unblock' = power_on_flag(waiting_for_unblock)
                /\ poll_thread' = [poll_thread EXCEPT !.pc = "con", !.power = TRUE]
           ELSE /\ waiting_for_unblock' = power_off_flag(waiting_for_unblock)
                /\ poll_thread' = Idle
  /\ UNCHANGED <<env, last, prev, awaited, click_thread, set_since_seen>>

\* lines 124-144: 'hcitool con' and the rest of the cycle, which issues no
\* further command and does not touch the flag
poll_con ==
  /\ poll_thread.pc = "con"
  /\ poll_thread' = Idle
  /\ UNCHANGED <<waiting_for_unblock, env, last, prev, awaited, click_thread, set_since_seen>>

\* on_click, line 147: 'rfkill list'
click_rfkill ==
  /\ click_thread.pc = "idle"
  /\ click_thread' = after_rfkill(click_thread)
  /\ UNCHANGED <<waiting_for_unblock, env, last, prev, awaited, poll_thread, set_since_seen>>

\* line 147: 'hcitool dev'
click_dev ==
  /\ click_thread.pc = "dev"
  /\ click_thread' = after_dev(click_thread, "first")
  /\ UNCHANGED <<waiting_for_unblock, env, last, prev, awaited, poll_thread, set_since_seen>>

\* lines 148, 152: the branch and the rfkill command
click_first ==
  /\ click_thread.pc = "first"
  /\ \E o \in CallOutcomes :
       click_thread' =
         IF o = "OSError" THEN Idle
         ELSE [click_thread EXCEPT
                 !.pc = "second",
                 !.power = HasPower(waiting_for_unblock, click_thread.rfkill_length,
                                    click_thread.devices_length)]
  /\ UNCHANGED <<waiting_for_unblock, env, last, prev, awaited, poll_thread, set_since_seen>>

\* lines 149, 153: the hciconfig command
click_second ==
  /\ click_thread.pc = "second"
  /\ \E o \in CallOutcomes :
       click_thread' =
         IF o = "OSError" \/ click_thread.power THEN Idle
         ELSE [click_thread EXCEPT !.pc = "set"]
  /\ UNCHANGED <<waiting_for_unblock, env, last, prev, awaited, poll_thread, set_since_seen>>

\* line 150: the toggle-on sets the flag
click_set ==
  /\ click_thread.pc = "set"
  /\ waiting_for_unblock' = TRUE
  /\ set_since_seen' = TRUE
  /\ click_thread' = Idle
  /\ UNCHANGED <<env, last, prev, awaited, poll_thread>>

NextRace ==
  \/ poll_rfkill \/ poll_dev \/ poll_decide \/ poll_con
  \/ click_rfkill \/ click_dev \/ click_first \/ click_second \/ click_set
  \/ rfkill_changes \/ dev_changes

SpecRace == InitRace /\ [][NextRace]_vars

(***************************************************************************)
(* Vocabulary of the properties                                            *)
(***************************************************************************)
Polled == last.op = "bluetooth"

Clicked == last.op = "on_click"

\* the handler returned instead of raising
Returned == last.exc = "none"

ErrorText == <<"Error">>

\* a normal display, as opposed to the "Error" response
NonError == Polled /\ Returned /\ last.response.full_text # ErrorText

SawOff == last.power = "Off"

SawOn == last.power = "On"

\* the queries of the current environment, which the last handler run read
RfkillFails == ~rfkill_list.ok

DevFails == ~hcitool_dev.ok

ConFails == ~hcitool_con.ok

\* the matches in the output of each query, tabulated over the environments
rfkill_matches == [r \in RfkillStates |-> findall(BTBLOCKED_RE, rfkill_output(r).text)] @@ << >>

dev_matches == [d \in DevStates |-> findall(BTSTATUS_RE, dev_output(d).text)] @@ << >>

con_matches == [c \in ConStates |-> findall(BTMAC_RE, con_output(c).text)] @@ << >>

\* the 17-character runs in the output of 'hcitool con'
ConMacs == Range(con_matches[hcitool_con])

OffText == format_no_power_prefix \o format_no_power

NoConnText == format_no_conn_prefix \o format_no_conn

NameLookups == { i \in 1..Len(last.cmds) : last.cmds[i] \notin
                   {"rfkill list", "hcitool dev", "hcitool con", "rfkill block bluetooth",
                    "rfkill unblock bluetooth", "sudo hciconfig hci0 up",
                    "sudo hciconfig hci0 down"} }

\* the control commands a click issued, after its two queries
Control == IF Len(last.cmds) > 2 THEN SubSeq(last.cmds, 3, Len(last.cmds)) ELSE << >>

(***************************************************************************)
(* C1  Cache duration of a poll cycle                                      *)
(***************************************************************************)
\* C1: every poll cycle that returns a non-error response has cache duration
\* zero if and only if it saw the adapter powered off and waiting_for_unblock
\* was true on entry; every other such cycle has duration cache_timeout.
C1_CacheDuration ==
  NonError =>
    /\ (last.response.cached_until = time_in(0)) <=> (SawOff /\ last.entry_flag)
    /\ ~(SawOff /\ last.entry_flag) => last.response.cached_until = time_in(cache_timeout)

\* a poll that saw Off while a toggle-on was awaited, and returned
C1_Witness ==
  /\ NonError /\ SawOff /\ last.entry_flag
  /\ last.response.cached_until = 0

(***************************************************************************)
(* C2  Failure of the connections query                                    *)
(***************************************************************************)
\* C2: when the adapter is seen powered on and 'hcitool con' fails, the poll
\* returns a response with text "Error" and cache duration zero, and issues
\* no 'hcitool name' lookup.
C2_ErrorResponse ==
  (Polled /\ SawOn /\ ConFails) =>
    /\ Returned
    /\ last.response.full_text = ErrorText
    /\ last.response.cached_until = time_in(0)
    /\ NameLookups = {}

(***************************************************************************)
(* C3  No exception leaves the poll function                               *)
(***************************************************************************)
\* C3: whatever the external commands do and whatever waiting_for_unblock
\* is, bluetooth() ends by returning a response, never by raising.
C3_NeverRaises == Polled => Returned /\ last.response # NoResponse

(***************************************************************************)
(* C4  A query that cannot be run reads as Off                             *)
(***************************************************************************)
\* C4: if 'rfkill list' or 'hcitool dev' cannot be executed, the match list
\* is empty, the power state is Off and the poll renders the Off display
\* with the down icon tint.
C4_AbsentQueryIsOff ==
  (Polled /\ (RfkillFails \/ DevFails)) =>
    /\ Returned
    /\ SawOff
    /\ last.response.full_text = OffText
    /\ last.response.icon_color = icon_color_down

(***************************************************************************)
(* C5  The flag is cleared when the adapter is seen powered on             *)
(***************************************************************************)
\* C5: after every poll cycle that saw the adapter powered on,
\* waiting_for_unblock is false, however the cycle ended.
C5_ClearedWhenOn == (Polled /\ SawOn) => ~waiting_for_unblock

\* a cycle entered with the flag set that saw On and ended by an exception
C5_Witness ==
  /\ Polled /\ SawOn /\ last.entry_flag
  /\ ~Returned
  /\ ~waiting_for_unblock

(***************************************************************************)
(* C6  The commands of a click                                             *)
(***************************************************************************)
\* C6: a click queries the power state first, then issues exactly one pair
\* of control commands in order: unblock then up if the adapter is off, and
\* then waiting_for_unblock is true; block then down if it is on.
C6_ClickCommands ==
  Clicked =>
    /\ Len(last.cmds) >= 2
    /\ SubSeq(last.cmds, 1, 2) = <<"rfkill list", "hcitool dev">>
    /\ SawOn => Control = <<"rfkill block bluetooth", "sudo hciconfig hci0 down">>
    /\ ~SawOn => /\ Control = <<"rfkill unblock bluetooth", "sudo hciconfig hci0 up">>
                 /\ waiting_for_unblock

(***************************************************************************)
(* C7  A failed name lookup drops only that device                         *)
(***************************************************************************)
\* 'hcitool name' resolves the address
Resolves(mac) == (mac = MacA /\ "macA" \in name_ok) \/ (mac = MacB /\ "macB" \in name_ok)

RECURSIVE strip(_)
strip(t) ==
  IF t = << >> THEN t
  ELSE IF Head(t) \in Space THEN strip(Tail(t))
  ELSE IF t[Len(t)] \in Space THEN strip(SubSeq(t, 1, Len(t) - 1))
  ELSE t

\* C7: when the name lookup fails for some connected addresses, exactly those
\* devices are left out, the others are rendered, and the cycle returns a
\* normal response with the good-state color.
C7_PartialLookup ==
  (Polled /\ SawOn /\ ~ConFails /\ ConMacs # {}) =>
    /\ NonError
    /\ Range(last.data) = { strip(DeviceName(m)) : m \in { a \in ConMacs : Resolves(a) } }
    /\ last.response.color = COLOR_GOOD

(***************************************************************************)
(* C8  Connections output without an address                               *)
(***************************************************************************)
\* C8: when the adapter is on and 'hcitool con' succeeds with output that
\* has no address in it, empty output included, the poll renders the
\* No-Connection display and does not take the error path.
C8_NoConnection ==
  (Polled /\ SawOn /\ ~ConFails /\ ConMacs = {}) =>
    /\ NonError
    /\ last.response.full_text = NoConnText

(***************************************************************************)
(* C9  Color and icon tint                                                 *)
(***************************************************************************)
\* C9: the hints follow the derived state: Off gives the bad-state color and
\* the down tint, On without connections the bad-state color and the up
\* tint, On with at least one connection the good-state color and the up
\* tint.
C9_Hints ==
  /\ (Polled /\ SawOff) =>
       last.response.color = COLOR_BAD /\ last.response.icon_color = icon_color_down
  /\ (Polled /\ SawOn /\ Truthy(con_output(hcitool_con)) /\ ConMacs = {}) =>
       last.response.color = COLOR_BAD /\ last.response.icon_color = icon_color_up
  /\ (Polled /\ SawOn /\ ConMacs # {}) =>
       last.response.color = COLOR_GOOD /\ last.response.icon_color = icon_color_up

(***************************************************************************)
(* C10  The power state is the conjunction of the two match lists          *)
(***************************************************************************)
\* C10: the derived power state is On if and only if both the match list of
\* 'rfkill list' and the match list of 'hcitool dev' are non-empty.
C10_HasPower ==
  (last.op # "none" /\ last.power # "unknown") =>
    /\ last.rfkill_length = Len(rfkill_matches[rfkill_list])
    /\ last.devices_length = Len(dev_matches[hcitool_dev])
    /\ SawOn <=> (last.rfkill_length > 0 /\ last.devices_length > 0)

\* an unblocked radio without a listed adapter reads as Off
C10_Witness ==
  /\ Polled /\ last.rfkill_length > 0 /\ last.devices_length = 0
  /\ SawOff

(***************************************************************************)
(* C11  Two polls in a row                                                 *)
(***************************************************************************)
\* the last two handler runs were polls, with no click and no change of the
\* command outputs between them
PolledTwice == Polled /\ prev.op = "bluetooth"

\* C11: two polls in succession with unchanged command outputs and no click
\* in between end the same way and, when they return, show the same text and
\* the same color, whatever waiting_for_unblock was at the start.
C11_Idempotent ==
  PolledTwice =>
    /\ prev.exc = last.exc
    /\ prev.full_text = last.response.full_text
    /\ prev.color = last.response.color

\* the first poll started with the flag set and cleared it, the second
\* started without it, and both returned a display
C11_Witness ==
  /\ PolledTwice /\ Returned /\ prev.exc = "none"
  /\ prev.entry_flag /\ ~last.entry_flag
  /\ last.response.full_text = format_no_conn_prefix \o format_no_conn

(***************************************************************************)
(* C12  Shape of the extracted addresses                                   *)
(***************************************************************************)
HexDigit == HexColon \ {":"}

\* six two-digit groups joined by colons
MacShaped(m) ==
  /\ Len(m) = 17
  /\ \A i \in 1..Len(m) : IF i % 3 = 0 THEN m[i] = ":" ELSE m[i] \in HexDigit

NoDuplicates(q) == \A i, j \in 1..Len(q) : q[i] = q[j] => i = j

\* C13: an address that occurs several times in the connections output is
\* in the address set once, at most one name lookup is issued for it and it
\* is rendered at most once.
C13_Deduplicated ==
  (Polled /\ SawOn /\ Truthy(con_output(hcitool_con))) =>
    /\ NoDuplicates(last.macs)
    /\ Range(last.macs) = ConMacs
    /\ Cardinality(NameLookups) <= Cardinality(ConMacs)
    /\ Len(last.data) <= Cardinality(ConMacs)

\* the connections output had the same address more than once
C13_Witness ==
  /\ Polled /\ SawOn /\ Len(last.macs) >= 1
  /\ Len(con_matches[hcitool_con]) > Len(last.macs)

(***************************************************************************)
(* C14  Order of the commands of a poll cycle                              *)
(***************************************************************************)
\* C14: a poll cycle issues 'rfkill list' once, then 'hcitool dev' once
\* (also when the rfkill result is empty), then 'hcitool con' once only if
\* the adapter is on, then one 'hcitool name' per distinct address only if
\* that succeeded with an address; nothing is issued twice.
C14_CommandOrder ==
  Polled =>
    /\ Len(last.cmds) >= 2
    /\ SubSeq(last.cmds, 1, 2) = <<"rfkill list", "hcitool dev">>
    /\ SawOn <=> (Len(last.cmds) >= 3 /\ last.cmds[3] = "hcitool con")
    /\ ~SawOn => Len(last.cmds) = 2
    /\ SawOn => /\ NameLookups = 4..Len(last.cmds)
                /\ Cardinality(NameLookups) =
                     IF Truthy(con_output(hcitool_con)) THEN Cardinality(ConMacs) ELSE 0

(***************************************************************************)
(* C15  The flag means that a toggle-on is awaited                         *)
(***************************************************************************)
\* C15: waiting_for_unblock is true only if the most recent toggle was a
\* toggle-on and no later handler run has seen the adapter powered on; in
\* particular it is false after a click that saw the adapter powered on.
C15_FlagMeansAwaited ==
  /\ waiting_for_unblock => awaited
  /\ (Clicked /\ SawOn) => ~waiting_for_unblock

(***************************************************************************)
(* C16  What a poll cycle does to the flag                                 *)
(***************************************************************************)
\* the power state the two command outputs give
PowerOfOutputs ==
  /\ Len(rfkill_matches[rfkill_list]) > 0
  /\ Len(dev_matches[hcitool_dev]) > 0

\* C16: the power state depends on the two command outputs only, whatever
\* the flag is; deriving it does not change the flag; a poll cycle never
\* sets the flag, and a poll cycle that saw Off leaves it as it was.
C16_PollFrame ==
  /\ (last.op # "none" /\ last.power # "unknown") => (SawOn <=> PowerOfOutputs)
  /\ (last.op # "none" /\ last.power = "unknown") => waiting_for_unblock = last.entry_flag
  /\ Polled => (waiting_for_unblock => last.entry_flag)
  /\ (Polled /\ SawOff) => waiting_for_unblock = last.entry_flag

\* a poll that saw Off while the flag was set left it set
C16_Witness == Polled /\ SawOff /\ last.entry_flag /\ waiting_for_unblock

(***************************************************************************)
(* C17  A click racing a poll                                              *)
(***************************************************************************)
\* the flag goes from true to false
Cleared == waiting_for_unblock /\ ~waiting_for_unblock'

\* C17 as stated: the flag a toggle-on sets is cleared only by a poll cycle
\* that saw the power state after the toggle set it; a poll that saw On
\* before never erases it.
C17_ClearedByLaterPoll == [][Cleared => ~set_since_seen]_vars

\* C17: the flag a toggle-on sets is cleared only by a poll cycle that saw
\* the adapter powered on, never by a click nor by a poll that saw Off (the
\* poll may have seen On before the toggle set the flag).
C17_ClearedByPollThatSawOn ==
  [][Cleared =>
       /\ poll_thread.pc = "decide" /\ poll_thread'.pc = "con"
       /\ poll_thread.rfkill_length > 0 /\ poll_thread.devices_length > 0
       /\ click_thread' = click_thread]_vars

\* a poll saw On, then a toggle-on set the flag, then the poll cleared it
C17_Witness == poll_thread.pc = "con" /\ set_since_seen /\ ~waiting_for_unblock

====
